---- MODULE Spec2Model ----
(***************************************************************************)
(* The three example clients of the daisybase library (example500.c,       *)
(* example500_counter.cpp, example500_counter_clean.cpp) as one state      *)
(* machine, together with the documented behaviour of the library calls    *)
(* they make.  A step of the machine is one library call of the client     *)
(* plus the local code that follows it up to the next call.                *)
(***************************************************************************)
EXTENDS Integers, Naturals, Sequences, FiniteSets, TLC

(***************************************************************************)
(* Bounds of the model (not program constants).                            *)
(***************************************************************************)
MaxFrames == 2

(***************************************************************************)
(* daisybase.h: return codes, in the order of the enumeration.             *)
(***************************************************************************)
DYB_Ok == 0
DYB_Error == 1
DYB_Timeout == 2
DYB_NotConnected == 3
DYB_DriverError == 4
DYB_FileNotFound == 5
DYB_SrvNotFound == 6
DYB_ServerLost == 7
DYB_OutOfRange == 8
DYB_WrongContext == 9
DYB_XmlError == 10
DYB_OpenError == 11
DYB_Rc == {DYB_Ok, DYB_Error, DYB_Timeout, DYB_NotConnected, DYB_DriverError,
           DYB_FileNotFound, DYB_SrvNotFound, DYB_ServerLost, DYB_OutOfRange,
           DYB_WrongContext, DYB_XmlError, DYB_OpenError}

(***************************************************************************)
(* daisydata.h: event types.                                               *)
(***************************************************************************)
DYB_EVT_DATA_00 == 1
DYB_EVT_CUSTOM == 32768

(***************************************************************************)
(* asc500.h: parameter addresses and enumeration values (decimal).         *)
(***************************************************************************)
ID_OUTPUT_ACTIVATE == 321
ID_OUTPUT_STATUS == 320
ID_DATA_EN == 326
CHANCONN_DISABLED == 0
CHANCONN_SCANNER == 1
CHANCONN_PERMANENT == 2
CHANADC_ADC_MIN == 0
CHANADC_COUNTER == 23
ID_SCAN_X_EQ_Y == 4102
ID_SCAN_GEOMODE == 4105
ID_SCAN_OFFSET_X == 16
ID_SCAN_OFFSET_Y == 17
ID_SCAN_COLUMNS == 4099
ID_SCAN_LINES == 29
ID_SCAN_PIXEL == 4129
ID_SCAN_MSPPX == 4128
ID_SCAN_COMMAND == 256
ID_POSI_TARGET_X == 39
ID_POSI_TARGET_Y == 40
ID_POSI_GOTO == 58
SCANRUN_OFF == 0
SCANRUN_ON == 1
ID_SCAN_STATUS == 257
SCANSTATE_PAUSE == 1
SCANSTATE_MOVING == 2
SCANSTATE_SCAN == 4
SCANSTATE_IDLE == 8
SCANSTATE_LOOP == 16
ID_CNT_EXP_TIME == 784

(***************************************************************************)
(* example500.c: the parameter values of the example.                      *)
(***************************************************************************)
CHANNELNO == 0
COLUMNS == 100
LINES == 150
PIXELSIZE == 1000
SAMPLETIME == 100
FRAMESIZE == COLUMNS * LINES * 2

(***************************************************************************)
(* The limits DYB_configureDataBuffering documents: a size above 1M is     *)
(* refused, a timer triggered channel is not buffered below 128 items.     *)
(* "1M" is read as 1000000, the stricter of its two readings.              *)
(***************************************************************************)
MaxBufferSize == 1000000
MinTimerBuffer == 128

(***************************************************************************)
(* state & flag of the C code, for a flag that is one bit.                 *)
(***************************************************************************)
HasFlag(state, flag) == (state \div flag) % 2 = 1

(***************************************************************************)
(* The library and the server behind it, as far as the headers document    *)
(* them.  lib is the record                                                *)
(*   cols, lines  scan range the server has in place                       *)
(*   dataEn       data channels enabled (ID_DATA_EN)                       *)
(*   trigger      trigger of channel CHANNELNO (CHANCONN_..)               *)
(*   bufSize      size given to DYB_configureDataBuffering, 0 = unbuffered *)
(*   frameNo      number of the last complete frame                        *)
(*   fullAvail    that frame is complete and not yet retrieved             *)
(*   dataCb       the registered data callbacks, pairs <<channel, callback>> *)
(*   eventCb      the registered event callbacks, pairs <<address, callback>> *)
(* Every call is an operator that yields the set of its possible outcomes, *)
(* records with the return code rc, the library state lib after the call   *)
(* and the value val written to the output parameter.                      *)
(***************************************************************************)
Channels == {CHANNELNO}
ProfileColumns == {COLUMNS, 2 * COLUMNS}
ProfileLines == {LINES}
OutputStatusValues == {0, 1}
PartialSizes == {0, 1}
ScanStatusValues == {SCANSTATE_IDLE, SCANSTATE_MOVING, SCANSTATE_SCAN + SCANSTATE_LOOP}

Outcome(r, l, v) == [rc |-> r, lib |-> l, val |-> v]

DYB_init(l) == {Outcome(r, l, 0) : r \in {DYB_Ok, DYB_OutOfRange}}

DYB_run(l) ==
  {Outcome(r, l, 0) : r \in {DYB_Ok, DYB_DriverError, DYB_NotConnected,
                             DYB_SrvNotFound, DYB_FileNotFound, DYB_ServerLost,
                             DYB_Error}}

DYB_stop(l) == {Outcome(DYB_Ok, l, 0)}

(* A callback function is a number other than NULL. *)
NULL == 0
Callbacks == {1, 2}

(* The registrations of registry reg with those for key replaced by the    *)
(* callback given, by none if it is NULL.                                  *)
Registered(reg, key, callback) ==
  {e \in reg : e[1] # key} \cup
  (IF callback = NULL THEN {} ELSE {<<key, callback>>})

(* Registration that leaves the function registered before in place. *)
DYB_setDataCallback_adds(l, channel, callback) ==
  {Outcome(r, [l EXCEPT !.dataCb = @ \cup (IF callback = NULL THEN {} ELSE {<<channel, callback>>})], 0) :
     r \in {DYB_Ok, DYB_ServerLost}}

(* "A callback function registered previously is unregistered"; the       *)
(* header says so whatever the function returns.                           *)
DYB_setDataCallback(l, channel, callback) ==
  {Outcome(r, [l EXCEPT !.dataCb = Registered(@, channel, callback)], 0) :
     r \in {DYB_Ok, DYB_ServerLost}}

DYB_setEventCallback(l, address, callback) ==
  {Outcome(DYB_Ok, [l EXCEPT !.eventCb = Registered(@, address, callback)], 0)}

(* The server accepts, rejects or limits the value sent. *)
Served(cur, value, known) == {value, cur} \cup {c \in known : c < value}

DYB_setParameterAsync(l, address, value) ==
  {Outcome(DYB_ServerLost, l, 0)} \cup
  CASE address = ID_SCAN_COLUMNS ->
         {Outcome(DYB_Ok, [l EXCEPT !.cols = c], 0) : c \in Served(l.cols, value, ProfileColumns)}
    [] address = ID_SCAN_LINES ->
         {Outcome(DYB_Ok, [l EXCEPT !.lines = c], 0) : c \in Served(l.lines, value, ProfileLines)}
    [] address = ID_DATA_EN ->
         {Outcome(DYB_Ok, [l EXCEPT !.dataEn = (value # 0)], 0)}
    [] OTHER -> {Outcome(DYB_Ok, l, 0)}

ParameterValues(address) ==
  CASE address = ID_OUTPUT_STATUS -> OutputStatusValues
    [] address = ID_SCAN_STATUS -> ScanStatusValues
    [] OTHER -> {0}

(* cur is the value the output parameter holds before the call. *)
DYB_getParameterSync(l, address, cur) ==
  {Outcome(r, l, cur) : r \in {DYB_ServerLost, DYB_Timeout}} \cup
  {Outcome(DYB_Ok, l, v) : v \in ParameterValues(address)}

DYB_sendProfile(l) ==
  {Outcome(r, l, 0) : r \in {DYB_ServerLost, DYB_OpenError, DYB_XmlError}} \cup
  {Outcome(DYB_Ok, [l EXCEPT !.cols = c, !.lines = n, !.dataEn = TRUE], 0) :
     c \in ProfileColumns, n \in ProfileLines}

DYB_configureChannel(l, number, trigger) ==
  IF number \notin Channels
  THEN {Outcome(DYB_OutOfRange, l, 0)}
  ELSE {Outcome(DYB_ServerLost, l, 0),
        Outcome(DYB_Ok, [l EXCEPT !.trigger = trigger], 0)}

AcceptedSize(size) == size >= 0 /\ size <= MaxBufferSize

DYB_configureDataBuffering(l, channel, size) ==
  IF AcceptedSize(size)
  THEN {Outcome(DYB_Ok, [l EXCEPT !.bufSize = size], 0)}
  ELSE {Outcome(DYB_OutOfRange, l, 0)}

(* Whether the data of the channel are buffered at all. *)
Buffered(l) ==
  /\ l.bufSize > 0
  /\ l.trigger # CHANCONN_DISABLED
  /\ (l.trigger = CHANCONN_PERMANENT => l.bufSize >= MinTimerBuffer)

DYB_getFrameSize(l, channel) ==
  IF channel \notin Channels \/ ~Buffered(l) THEN 0
  ELSE IF l.trigger = CHANCONN_SCANNER THEN l.cols * l.lines * 2
  ELSE l.bufSize

(* A frame of the channel becomes complete. *)
FrameCompleted(l) ==
  [l EXCEPT !.frameNo = @ + 1, !.fullAvail = TRUE]

CanComplete(l) ==
  /\ l.dataEn
  /\ DYB_getFrameSize(l, CHANNELNO) > 0
  /\ l.frameNo < MaxFrames

(* What DYB_getDataBuffer yields: wrote says whether frameNo, index, data   *)
(* and meta were filled, dataSize is the value of *dataSize after the call. *)
Retrieved(r, l, w, n, f) == [rc |-> r, lib |-> l, wrote |-> w, dataSize |-> n, frameNo |-> f]

(* A failing call fills nothing; *dataSize is left alone or cleared. *)
NotRetrieved(l, size) ==
  {Retrieved(DYB_OutOfRange, l, FALSE, n, 0) : n \in {size, 0}}

(* DYB_getDataBuffer that leaves a full frame it has returned in place. *)
DYB_getDataBuffer_again(l, channel, fullOnly, size) ==
  IF channel \notin Channels \/ ~Buffered(l) THEN NotRetrieved(l, size)
  ELSE IF size < DYB_getFrameSize(l, channel) THEN NotRetrieved(l, size)
  ELSE IF l.fullAvail
    THEN {Retrieved(DYB_Ok, l, TRUE, DYB_getFrameSize(l, channel), l.frameNo)}
  ELSE IF fullOnly = 0
    THEN {Retrieved(DYB_Ok, l, TRUE, n, l.frameNo + 1) : n \in PartialSizes}
  ELSE NotRetrieved(l, size)

DYB_getDataBuffer(l, channel, fullOnly, size) ==
  IF channel \notin Channels \/ ~Buffered(l) THEN NotRetrieved(l, size)
  ELSE IF size < DYB_getFrameSize(l, channel) THEN NotRetrieved(l, size)
  ELSE IF l.fullAvail
    THEN {Retrieved(DYB_Ok, [l EXCEPT !.fullAvail = FALSE], TRUE,
                    DYB_getFrameSize(l, channel), l.frameNo)}
  ELSE IF fullOnly = 0
    THEN {Retrieved(DYB_Ok, l, TRUE, n, l.frameNo + 1) : n \in PartialSizes}
  ELSE NotRetrieved(l, size)

(* "Writing empty buffer ends up with error" (example500.c). *)
DYB_writeBuffer(l, dataSize) ==
  {Outcome(r, l, 0) : r \in {DYB_OutOfRange, DYB_OpenError}} \cup
  (IF dataSize > 0 THEN {Outcome(DYB_Ok, l, 0)} ELSE {})

(* val is the event that woke the call up, 0 on timeout; full says that a  *)
(* frame became complete while the call was waiting.                       *)
Woken(v, l, f) == [val |-> v, lib |-> l, full |-> f]

DYB_waitForEvent(l, eventMask, customId) ==
  {Woken(0, l, FALSE)} \cup
  (IF HasFlag(eventMask, DYB_EVT_DATA_00) /\ CanComplete(l)
     THEN {Woken(DYB_EVT_DATA_00, FrameCompleted(l), TRUE)} ELSE {}) \cup
  (IF HasFlag(eventMask, DYB_EVT_CUSTOM)
     THEN {Woken(DYB_EVT_CUSTOM, l, FALSE)} ELSE {})

(***************************************************************************)
(* The text of the three main functions: one entry per statement, with its *)
(* source line.  op is                                                     *)
(*   "checked"   rc = fn(..); checkRc(label, rc);                          *)
(*   "dropped"   fn(..);  the return code is not looked at                 *)
(*   "set"       setParameter(a, 0, b);                                    *)
(*   "outputPoll", "moving", "scanPoll", "scanCmd", "scanCmdDropped",      *)
(*   "acquire", "return"  the loops, calls and the switch of main.         *)
(***************************************************************************)
S(line, op, fn, a, b, label) ==
  [line |-> line, op |-> op, fn |-> fn, a |-> a, b |-> b, label |-> label]

example500_main == <<
  S(209, "checked", "DYB_init", 0, 0, "DYB_Init"),
  S(211, "checked", "DYB_run", 0, 0, "DYB_Run"),
  S(215, "checked", "DYB_sendProfile", 0, 0, "DYB_sendProfile"),
  S(219, "checked", "DYB_configureChannel", CHANNELNO, CHANCONN_SCANNER, "DYB_configureChannel"),
  S(225, "dropped", "DYB_configureDataBuffering", CHANNELNO, 1024, ""),
  S(228, "set", "DYB_setParameterAsync", ID_SCAN_X_EQ_Y, 0, ""),
  S(229, "set", "DYB_setParameterAsync", ID_SCAN_GEOMODE, 0, ""),
  S(232, "set", "DYB_setParameterAsync", ID_SCAN_PIXEL, PIXELSIZE, ""),
  S(233, "set", "DYB_setParameterAsync", ID_SCAN_COLUMNS, COLUMNS, ""),
  S(234, "set", "DYB_setParameterAsync", ID_SCAN_LINES, LINES, ""),
  S(235, "set", "DYB_setParameterAsync", ID_SCAN_OFFSET_X, 150 * PIXELSIZE, ""),
  S(236, "set", "DYB_setParameterAsync", ID_SCAN_OFFSET_Y, 150 * PIXELSIZE, ""),
  S(237, "set", "DYB_setParameterAsync", ID_SCAN_MSPPX, SAMPLETIME, ""),
  S(240, "set", "DYB_setParameterAsync", ID_OUTPUT_ACTIVATE, 1, ""),
  S(242, "outputPoll", "DYB_getParameterSync", ID_OUTPUT_STATUS, 0, "DYB_getParameterSync"),
  S(249, "set", "DYB_setParameterAsync", ID_POSI_TARGET_X, 1000000, ""),
  S(250, "set", "DYB_setParameterAsync", ID_POSI_TARGET_Y, 500000, ""),
  S(251, "set", "DYB_setParameterAsync", ID_POSI_GOTO, 1, ""),
  S(252, "moving", "", 0, 0, ""),
  S(255, "scanPoll", "DYB_getParameterSync", ID_SCAN_STATUS, 0, "DYB_getParameterSync"),
  S(260, "scanCmd", "DYB_setParameterAsync", ID_SCAN_COMMAND, SCANRUN_ON, "sendScannerCommand"),
  S(264, "acquire", "", 0, 0, ""),
  S(271, "scanCmdDropped", "DYB_setParameterAsync", ID_SCAN_COMMAND, SCANRUN_OFF, ""),
  S(272, "set", "DYB_setParameterAsync", ID_OUTPUT_ACTIVATE, 0, ""),
  S(273, "dropped", "DYB_waitForEvent", DYB_EVT_CUSTOM, ID_OUTPUT_STATUS, ""),
  S(274, "dropped", "DYB_getParameterSync", ID_OUTPUT_STATUS, 0, ""),
  S(279, "dropped", "DYB_stop", 0, 0, ""),
  S(280, "return", "", 0, 0, "") >>

example500_counter_main == <<
  S(210, "checked", "DYB_init", 0, 0, "DYB_Init"),
  S(212, "checked", "DYB_run", 0, 0, "DYB_Run"),
  S(216, "checked", "DYB_sendProfile", 0, 0, "DYB_sendProfile"),
  S(220, "checked", "DYB_configureChannel", 0, CHANCONN_PERMANENT, "DYB_configureChannel"),
  S(230, "checked", "DYB_configureDataBuffering", 0, 2048, "DYB_configureDataBuffering"),
  S(234, "set", "DYB_setParameterAsync", ID_SCAN_X_EQ_Y, 0, ""),
  S(235, "set", "DYB_setParameterAsync", ID_SCAN_GEOMODE, 0, ""),
  S(238, "set", "DYB_setParameterAsync", ID_SCAN_PIXEL, 1000, ""),
  S(239, "set", "DYB_setParameterAsync", ID_SCAN_COLUMNS, 100, ""),
  S(240, "set", "DYB_setParameterAsync", ID_SCAN_LINES, 150, ""),
  S(241, "set", "DYB_setParameterAsync", ID_SCAN_OFFSET_X, 150 * 1000, ""),
  S(242, "set", "DYB_setParameterAsync", ID_SCAN_OFFSET_Y, 150 * 1000, ""),
  S(243, "set", "DYB_setParameterAsync", ID_SCAN_MSPPX, 100, ""),
  S(244, "set", "DYB_setParameterAsync", ID_CNT_EXP_TIME, 100, ""),
  S(247, "set", "DYB_setParameterAsync", ID_OUTPUT_ACTIVATE, 1, ""),
  S(251, "outputPoll", "DYB_getParameterSync", ID_OUTPUT_STATUS, 0, "DYB_getParameterSync"),
  S(258, "acquire", "", 0, 0, ""),
  S(271, "set", "DYB_setParameterAsync", ID_OUTPUT_ACTIVATE, 0, ""),
  S(272, "dropped", "DYB_waitForEvent", DYB_EVT_CUSTOM, ID_OUTPUT_STATUS, ""),
  S(273, "dropped", "DYB_getParameterSync", ID_OUTPUT_STATUS, 0, ""),
  S(277, "dropped", "DYB_stop", 0, 0, ""),
  S(282, "return", "", 0, 0, "") >>

example500_counter_clean_main == <<
  S(117, "checked", "DYB_init", 0, 0, "DYB_Init"),
  S(119, "checked", "DYB_run", 0, 0, "DYB_Run"),
  S(122, "set", "DYB_setParameterAsync", ID_DATA_EN, 1, ""),
  S(125, "checked", "DYB_configureChannel", 0, CHANCONN_PERMANENT, "DYB_configureChannel"),
  S(135, "checked", "DYB_configureDataBuffering", 0, 256, "DYB_configureDataBuffering"),
  S(139, "set", "DYB_setParameterAsync", ID_CNT_EXP_TIME, 1, ""),
  S(141, "acquire", "", 0, 0, ""),
  S(145, "set", "DYB_setParameterAsync", ID_OUTPUT_ACTIVATE, 0, ""),
  S(146, "dropped", "DYB_waitForEvent", DYB_EVT_CUSTOM, ID_OUTPUT_STATUS, ""),
  S(147, "dropped", "DYB_getParameterSync", ID_OUTPUT_STATUS, 0, ""),
  S(151, "dropped", "DYB_stop", 0, 0, ""),
  S(156, "return", "", 0, 0, "") >>

Programs == {"example500", "example500_counter", "example500_counter_clean"}

Listing(p) ==
  CASE p = "example500" -> example500_main
    [] p = "example500_counter" -> example500_counter_main
    [] p = "example500_counter_clean" -> example500_counter_clean_main

(* Faulty variants of the programs, which the properties below tell from  *)
(* the programs: DYB_run called before DYB_init, the statement after       *)
(* DYB_run moved before it, a data callback registered after DYB_init,     *)
(* and buffering configured with size 0.                                   *)
Swap(m, i, j) ==
  [k \in 1..Len(m) |-> IF k = i THEN m[j] ELSE IF k = j THEN m[i] ELSE m[k]]
Main_runBeforeInit(p) == Swap(Listing(p), 1, 2)
Main_controlBeforeRun(p) == Swap(Listing(p), 2, 3)
Main_withCallback(p) ==
  <<Listing(p)[1], S(0, "dropped", "DYB_setDataCallback", CHANNELNO, 1, "")>>
    \o SubSeq(Listing(p), 2, Len(Listing(p)))
Main_unbuffered(p) ==
  [k \in 1..Len(Listing(p)) |->
     IF Listing(p)[k].fn = "DYB_configureDataBuffering"
     THEN [Listing(p)[k] EXCEPT !.b = 0] ELSE Listing(p)[k]]

(* The programs without the statement that enables the data channels. *)
Enabling(s) ==
  \/ s.fn = "DYB_sendProfile"
  \/ s.fn = "DYB_setParameterAsync" /\ s.a = ID_DATA_EN /\ s.b = 1
Main_notEnabled(p) == SelectSeq(Listing(p), LAMBDA s : ~Enabling(s))

(* The statements of main of program p. *)
Main(p) == Listing(p)

(* argv[1] after atoi; example500_counter starts from variant = 10. *)
Variants == {0, 1, 10}

Statements == UNION {{Main(p)[i] : i \in 1..Len(Main(p))} : p \in Programs}

(* The parameter values the clients send: <<address, value>>. *)
Commands == {<<s.a, s.b>> : s \in {t \in Statements : t.fn = "DYB_setParameterAsync"}}

Fns == {"DYB_init", "DYB_run", "DYB_stop", "DYB_reset", "DYB_setDataCallback",
        "DYB_setEventCallback", "DYB_setParameterAsync", "DYB_setParameterSync",
        "DYB_getParameterAsync", "DYB_getParameterSync", "DYB_sendProfile",
        "DYB_printRc", "DYB_printUnit", "DYB_configureChannel",
        "DYB_getChannelConfig", "DYB_configureDataBuffering", "DYB_getFrameSize",
        "DYB_getDataBuffer", "DYB_writeBuffer", "DYB_waitForEvent"}

(***************************************************************************)
(* State.                                                                  *)
(*   prog, variant   the program that runs and its argv[1]                 *)
(*   pc, at          the statement of main, and the place inside the       *)
(*                   function main has called ("main": in main itself)     *)
(*   rc              rc / ret of main                                      *)
(*   frc             rc of the function main has called                    *)
(*   event, outActive, scanState, state, loop   the locals of those names  *)
(*   buf             frame / buffer, index, dataSize and meta of the       *)
(*                   polling functions, with who filled each of them       *)
(*   lib             the library and the server                            *)
(*   called, first   the library functions that have been called, and the  *)
(*                   one that was called first                             *)
(*   inits           how often DYB_init has been called                    *)
(*   sent, resent    the parameter values that have been sent, and those   *)
(*                   that have been sent more than once                    *)
(*   last, out       the library call of the last step and what the step   *)
(*                   printed about a return code                           *)
(*   waitFull        a frame became complete during the last wait for      *)
(*                   DYB_EVT_DATA_00                                       *)
(*   delivered       the frames DYB_getDataBuffer has returned to calls    *)
(*                   with fullOnly = 1                                     *)
(*   twice           one of them has been returned a second time           *)
(***************************************************************************)
VARIABLES prog, variant, pc, at, rc, frc, event, outActive, scanState, state,
          loop, buf, lib, called, first, inits, sent, resent, last, out, waitFull,
          delivered, twice

ctl == <<prog, variant, pc, at>>
locals == <<rc, frc, event, outActive, scanState, state, loop, buf>>
hist == <<called, first, inits, sent, resent, last, out, waitFull, delivered, twice>>
vars == <<prog, variant, pc, at, rc, frc, event, outActive, scanState, state,
          loop, buf, lib, called, first, inits, sent, resent, last, out, waitFull,
          delivered, twice>>

NoPrint == [label |-> "", rc |-> DYB_Ok]
(* A library call as last keeps it: the function, the source line of the  *)
(* call, its return code if it has one and, for DYB_getDataBuffer, the     *)
(* fullOnly and dataSize it was given and the frame size and the full      *)
(* frame the library held when it was called, for DYB_setDataCallback and  *)
(* DYB_setEventCallback the channel or address (key) and the callback.     *)
NoCall == [fn |-> "", line |-> 0, hasRc |-> FALSE, rc |-> DYB_Ok,
           fullOnly |-> 0, dataSize |-> 0, frameSize |-> 0, avail |-> FALSE,
           key |-> 0, callback |-> NULL]
LibCall(fn, line, r) == [NoCall EXCEPT !.fn = fn, !.line = line, !.hasRc = TRUE, !.rc = r]
LibValue(fn, line) == [NoCall EXCEPT !.fn = fn, !.line = line]

(* checkRc with its test turned round. *)
checkRc_inverted(call, r) == IF r = DYB_Ok THEN [label |-> call, rc |-> r] ELSE [label |-> "", rc |-> DYB_Ok]

(* checkRc: prints DYB_printRc(rc) unless rc is DYB_Ok. *)
checkRc(call, r) == IF r # DYB_Ok THEN [label |-> call, rc |-> r] ELSE NoPrint

(* setParameter: the same for the return code of DYB_setParameterAsync. *)
setParameter(r) == IF r # DYB_Ok THEN [label |-> "DYB_setParameterAsync", rc |-> r] ELSE NoPrint

(* The step called the functions fns (call being the one it is about),    *)
(* printed print and sent the parameter value cmd (<< >>: none).           *)
Record(fns, call, print, cmd) ==
  /\ last' = call
  /\ out' = print
  /\ called' = called \cup fns \cup (IF print # NoPrint THEN {"DYB_printRc"} ELSE {})
  /\ first' = IF first = "" /\ call.fn # "" THEN call.fn ELSE first
  /\ inits' = IF "DYB_init" \in fns THEN inits + 1 ELSE inits
  /\ sent' = sent \cup ({cmd} \cap Commands)
  /\ resent' = resent \cup ({cmd} \cap sent)

Silent == Record({}, NoCall, NoPrint, << >>)

(* The locals of a polling function as it declares them: index = 0 and     *)
(* dataSize = size are initialised, the array and meta are not.            *)
FreshBuffer(size) ==
  [dataSize |-> size, frameNo |-> 0, data |-> "none", index |-> "init",
   size |-> "init", meta |-> "none", got |-> FALSE]

Age(tag) == IF tag = "get" THEN "old" ELSE tag

(* The locals after the DYB_getDataBuffer call that ended as o. *)
Filled(b, o) ==
  [dataSize |-> o.dataSize,
   frameNo |-> IF o.wrote THEN o.frameNo ELSE b.frameNo,
   data |-> IF o.wrote THEN "get" ELSE Age(b.data),
   index |-> IF o.wrote THEN "get" ELSE Age(b.index),
   size |-> IF o.wrote \/ o.dataSize # b.dataSize THEN "get" ELSE Age(b.size),
   meta |-> IF o.wrote THEN "get" ELSE Age(b.meta),
   got |-> (o.rc = DYB_Ok)]

lib0 == [cols |-> COLUMNS, lines |-> LINES, dataEn |-> FALSE,
         trigger |-> CHANCONN_DISABLED, bufSize |-> 0, frameNo |-> 0,
         fullAvail |-> FALSE, dataCb |-> {}, eventCb |-> {}, lost |-> FALSE]

Init ==
  /\ prog \in Programs
  /\ variant \in (IF prog = "example500_counter_clean" THEN {0} ELSE Variants)
  /\ pc = 1
  /\ at = "main"
  /\ rc = DYB_Ok
  /\ frc = DYB_Ok
  /\ event = 0
  /\ outActive = 0
  /\ scanState = 0
  /\ state = 0
  /\ loop = 0
  /\ buf = FreshBuffer(0)
  /\ lib \in {[lib0 EXCEPT !.cols = c, !.lines = n] : c \in ProfileColumns, n \in ProfileLines}
  /\ called = {}
  /\ first = ""
  /\ inits = 0
  /\ sent = {}
  /\ resent = {}
  /\ last = NoCall
  /\ out = NoPrint
  /\ waitFull = FALSE
  /\ delivered = {}
  /\ twice = FALSE

stmt == Main(prog)[pc]
InMain(op) == at = "main" /\ stmt.op = op

(* The library call of a simple statement; cur is the variable it writes. *)
Call(l, s, cur) ==
  CASE s.fn = "DYB_init" -> DYB_init(l)
    [] s.fn = "DYB_run" -> DYB_run(l)
    [] s.fn = "DYB_stop" -> DYB_stop(l)
    [] s.fn = "DYB_sendProfile" -> DYB_sendProfile(l)
    [] s.fn = "DYB_configureChannel" -> DYB_configureChannel(l, s.a, s.b)
    [] s.fn = "DYB_configureDataBuffering" -> DYB_configureDataBuffering(l, s.a, s.b)
    [] s.fn = "DYB_getParameterSync" -> DYB_getParameterSync(l, s.a, cur)
    [] s.fn = "DYB_setDataCallback" -> DYB_setDataCallback(l, s.a, s.b)
    [] s.fn = "DYB_setEventCallback" -> DYB_setEventCallback(l, s.a, s.b)
    [] s.fn = "DYB_waitForEvent" ->
         {Outcome(DYB_Ok, o.lib, o.val) : o \in DYB_waitForEvent(l, s.a, s.b)}

CallOf(s, r) ==
  IF s.fn = "DYB_waitForEvent" THEN LibValue(s.fn, s.line) ELSE LibCall(s.fn, s.line, r)

(* rc = fn(..); checkRc(label, rc); *)
CheckedCall ==
  /\ InMain("checked")
  /\ \E o \in Call(lib, stmt, 0) :
       /\ rc' = o.rc
       /\ lib' = o.lib
       /\ Record({stmt.fn}, CallOf(stmt, o.rc), checkRc(stmt.label, o.rc), << >>)
  /\ pc' = pc + 1
  /\ UNCHANGED <<prog, variant, at, frc, event, outActive, scanState, state, loop, buf, waitFull, delivered, twice>>

(* fn(..); of the calls whose return code is dropped only                  *)
(* DYB_getParameterSync( ID_OUTPUT_STATUS, 0, &outActive ) has an output.  *)
DroppedCall ==
  /\ InMain("dropped")
  /\ \E o \in Call(lib, stmt, outActive) :
       /\ lib' = o.lib
       /\ outActive' = IF stmt.fn = "DYB_getParameterSync" THEN o.val ELSE outActive
       /\ Record({stmt.fn}, CallOf(stmt, o.rc), NoPrint, << >>)
  /\ pc' = pc + 1
  /\ UNCHANGED <<prog, variant, at, rc, frc, event, scanState, state, loop, buf, waitFull, delivered, twice>>

(* setParameter( id, 0, value ); *)
SetParameter ==
  /\ InMain("set")
  /\ \E o \in DYB_setParameterAsync(lib, stmt.a, stmt.b) :
       /\ lib' = o.lib
       /\ Record({stmt.fn}, LibCall(stmt.fn, stmt.line, o.rc), setParameter(o.rc),
                 <<stmt.a, stmt.b>>)
  /\ pc' = pc + 1
  /\ UNCHANGED <<prog, variant, at, locals, waitFull, delivered, twice>>

(* while ( !outActive && rc == DYB_Ok ) *)
outputPoll_cond(active, r) == active = 0 /\ r = DYB_Ok

(* The loop that waits for ID_OUTPUT_STATUS: one pass, or the exit. *)
OutputPoll ==
  /\ InMain("outputPoll")
  /\ IF outputPoll_cond(outActive, rc)
     THEN \E o \in DYB_getParameterSync(lib, stmt.a, outActive) :
            /\ rc' = o.rc
            /\ outActive' = o.val
            /\ lib' = o.lib
            /\ Record({stmt.fn}, LibCall(stmt.fn, stmt.line, o.rc),
                      checkRc(stmt.label, o.rc), << >>)
            /\ pc' = pc
     ELSE /\ Silent
          /\ pc' = pc + 1
          /\ UNCHANGED <<rc, outActive, lib>>
  /\ UNCHANGED <<prog, variant, at, frc, event, scanState, state, loop, buf, waitFull, delivered, twice>>

(* scanState = SCANSTATE_MOVING; *)
ScanMoving ==
  /\ InMain("moving")
  /\ scanState' = SCANSTATE_MOVING
  /\ Silent
  /\ pc' = pc + 1
  /\ UNCHANGED <<prog, variant, at, rc, frc, event, outActive, state, loop, buf, lib, waitFull, delivered, twice>>

(* while ( scanState != SCANSTATE_IDLE ) *)
scanPoll_cond(s) == s # SCANSTATE_IDLE

(* The loop that waits for the scanner to be idle: one pass, or the exit. *)
ScanPoll ==
  /\ InMain("scanPoll")
  /\ IF scanPoll_cond(scanState)
     THEN \E o \in DYB_getParameterSync(lib, stmt.a, scanState) :
            /\ rc' = o.rc
            /\ scanState' = o.val
            /\ lib' = o.lib
            /\ Record({stmt.fn}, LibCall(stmt.fn, stmt.line, o.rc),
                      checkRc(stmt.label, o.rc), << >>)
            /\ pc' = pc
     ELSE /\ Silent
          /\ pc' = pc + 1
          /\ UNCHANGED <<rc, scanState, lib>>
  /\ UNCHANGED <<prog, variant, at, frc, event, outActive, state, loop, buf, waitFull, delivered, twice>>

(* Control after a step of a called function: on to the place target of    *)
(* the function, or ("return") back to main, which stores r in rc when the *)
(* statement assigns the result.                                           *)
Goto(target, r) ==
  IF target = "return"
  THEN /\ at' = "main"
       /\ pc' = pc + 1
       /\ rc' = IF stmt.op = "scanCmdDropped" THEN rc ELSE r
  ELSE /\ at' = target
       /\ pc' = pc
       /\ rc' = rc

ScanCmds == {"scanCmd", "scanCmdDropped"}

(* The test of the loop with || in place of &&. *)
sendScannerCommand_cond_or(r, st) == r = 0 \/ ~HasFlag(st, SCANSTATE_SCAN)

(* The test of the loop with rc in place of !rc. *)
sendScannerCommand_cond_rc(r, st) == r # 0 /\ ~HasFlag(st, SCANSTATE_SCAN)

(* The test of the loop with !state in place of the test of the flag. *)
sendScannerCommand_cond_state(r, st) == r = 0 /\ st = 0

(* while ( !rc && !(state & SCANSTATE_SCAN) ): !rc is rc == 0. *)
sendScannerCommand_cond(r, st) == r = 0 /\ ~HasFlag(st, SCANSTATE_SCAN)

(* sendScannerCommand( SCANRUN_ON ): rc = DYB_setParameterAsync( .. ) of   *)
(* the loop, on entry (rc = DYB_Ok, state = 0) and in every further pass.  *)
sendScannerCommand_send ==
  /\ \/ at = "main" /\ stmt.op \in ScanCmds /\ stmt.b = SCANRUN_ON
     \/ at = "ssc_send"
  /\ \E o \in DYB_setParameterAsync(lib, ID_SCAN_COMMAND, stmt.b) :
       /\ frc' = o.rc
       /\ lib' = o.lib
       /\ Record({"DYB_setParameterAsync"}, LibCall("DYB_setParameterAsync", 178, o.rc),
                 NoPrint, <<ID_SCAN_COMMAND, stmt.b>>)
  /\ state' = IF at = "main" THEN 0 ELSE state
  /\ at' = "ssc_status"
  /\ UNCHANGED <<prog, variant, pc, rc, event, outActive, scanState, loop, buf, waitFull, delivered, twice>>

(* rc = DYB_getParameterSync( ID_SCAN_STATUS, 0, &state ), the test of the *)
(* loop and, when it ends, the return to main and main's checkRc.          *)
sendScannerCommand_status ==
  /\ at = "ssc_status"
  /\ \E o \in DYB_getParameterSync(lib, ID_SCAN_STATUS, state) :
       /\ frc' = o.rc
       /\ state' = o.val
       /\ lib' = o.lib
       /\ IF sendScannerCommand_cond(o.rc, o.val)
          THEN /\ Goto("ssc_send", o.rc)
               /\ Record({"DYB_getParameterSync"}, LibCall("DYB_getParameterSync", 180, o.rc),
                         NoPrint, << >>)
          ELSE /\ Goto("return", o.rc)
               /\ Record({"DYB_getParameterSync"}, LibCall("DYB_getParameterSync", 180, o.rc),
                         IF stmt.op = "scanCmd" THEN checkRc(stmt.label, o.rc) ELSE NoPrint,
                         << >>)
  /\ UNCHANGED <<prog, variant, event, outActive, scanState, loop, buf, waitFull, delivered, twice>>

(* sendScannerCommand( command ) for a command other than SCANRUN_ON. *)
sendScannerCommand_once ==
  /\ at = "main" /\ stmt.op \in ScanCmds /\ stmt.b # SCANRUN_ON
  /\ \E o \in DYB_setParameterAsync(lib, ID_SCAN_COMMAND, stmt.b) :
       /\ frc' = o.rc
       /\ lib' = o.lib
       /\ Goto("return", o.rc)
       /\ Record({"DYB_setParameterAsync"}, LibCall("DYB_setParameterAsync", 186, o.rc),
                 IF stmt.op = "scanCmd" THEN checkRc(stmt.label, o.rc) ELSE NoPrint,
                 <<ID_SCAN_COMMAND, stmt.b>>)
  /\ UNCHANGED <<prog, variant, event, outActive, scanState, state, loop, buf, waitFull, delivered, twice>>

(* framesize / FRAMESIZE handed to pollDataFull and pollDataPartial, and   *)
(* buffer_size handed to pollDataNow.                                      *)
FrameArg(p) == IF p = "example500" THEN FRAMESIZE ELSE 100 * 150 * 2
BufferArg(p) == IF p = "example500_counter" THEN 2048 ELSE 256

(* switch ( variant ): the function main calls, "skip" for none. *)
AcquireTarget(p, v) ==
  CASE p = "example500" ->
         (IF v = 0 THEN "pdf_wait" ELSE IF v = 1 THEN "pdp_get" ELSE "skip")
    [] p = "example500_counter" ->
         (IF v = 0 THEN "pdf_wait" ELSE IF v = 1 THEN "pdp_get" ELSE "pdn_size")
    [] p = "example500_counter_clean" -> "pdn_size"

(* The call of the acquisition function with its locals as declared. *)
Acquire ==
  /\ InMain("acquire")
  /\ LET t == AcquireTarget(prog, variant) IN
       /\ at' = IF t = "skip" THEN "main" ELSE t
       /\ pc' = IF t = "skip" THEN pc + 1 ELSE pc
       /\ buf' = IF t = "pdn_size" THEN FreshBuffer(BufferArg(prog))
                 ELSE FreshBuffer(FrameArg(prog))
  /\ frc' = DYB_Ok
  /\ event' = 0
  /\ loop' = 0
  /\ Silent
  /\ UNCHANGED <<prog, variant, rc, outActive, scanState, state, lib, waitFull, delivered, twice>>

(* ASC500_getXYPos: rc = rc ? rc : DYB_getParameterSync( .. ), four times. *)
ASC500_getXYPos(l) ==
  LET one == {o.rc : o \in DYB_getParameterSync(l, 0, 0)}
      chain(a, b) == IF a # 0 THEN a ELSE b
  IN {chain(chain(chain(r1, r2), r3), r4) : r1 \in one, r2 \in one, r3 \in one, r4 \in one}

(* while ( event == 0 && rc == DYB_Ok ) *)
pollDataFull_loop(ev, r) == ev = 0 /\ r = DYB_Ok

(* pollDataFull: event = DYB_waitForEvent( 500, DYB_EVT_DATA_00, 0 ); in   *)
(* example500_counter this is the whole body of the loop, and the loop is  *)
(* followed by assert(rc == DYB_Ok).                                       *)
pollDataFull_wait ==
  /\ at = "pdf_wait"
  /\ \E o \in DYB_waitForEvent(lib, DYB_EVT_DATA_00, 0) :
       /\ event' = o.val
       /\ lib' = o.lib
       /\ waitFull' = o.full
       /\ at' = IF prog = "example500" THEN "pdf_xy"
                ELSE IF pollDataFull_loop(o.val, frc) THEN "pdf_wait"
                ELSE IF frc = DYB_Ok THEN "pdf_read" ELSE "abort"
  /\ Record({"DYB_waitForEvent"},
            LibValue("DYB_waitForEvent", IF prog = "example500" THEN 112 ELSE 66),
            NoPrint, << >>)
  /\ UNCHANGED <<prog, variant, pc, rc, frc, outActive, scanState, state, loop, buf, delivered, twice>>

(* pollDataFull of example500.c: rc = ASC500_getXYPos( &x, &y ); checkRc;  *)
(* the test of the loop; if ( rc == DYB_Ok ) { .. } return rc;             *)
pollDataFull_xy ==
  /\ at = "pdf_xy"
  /\ \E r \in ASC500_getXYPos(lib) :
       /\ frc' = r
       /\ Record({"DYB_getParameterSync"}, LibCall("DYB_getParameterSync", 113, r),
                 checkRc("ASC500_getXYPos", r), << >>)
       /\ Goto(IF pollDataFull_loop(event, r) THEN "pdf_wait"
               ELSE IF r = DYB_Ok THEN "pdf_read" ELSE "return", r)
  /\ UNCHANGED <<prog, variant, event, outActive, scanState, state, loop, buf, lib, waitFull, delivered, twice>>

(* The call DYB_getDataBuffer( channel, fullOnly, .., &dataSize, data,     *)
(* &meta ) at line with the locals b, as a step that goes on at target.    *)
GetDataBuffer(line, fullOnly, b, also) ==
  \E o \in DYB_getDataBuffer(lib, CHANNELNO, fullOnly, b.dataSize) :
    /\ frc' = o.rc
    /\ buf' = Filled(b, o)
    /\ lib' = o.lib
    /\ delivered' = IF fullOnly = 1 /\ o.rc = DYB_Ok
                     THEN delivered \cup {o.frameNo} ELSE delivered
    /\ twice' = (twice \/ (fullOnly = 1 /\ o.rc = DYB_Ok /\ o.frameNo \in delivered))
    /\ Record({"DYB_getDataBuffer"} \cup also,
              [LibCall("DYB_getDataBuffer", line, o.rc) EXCEPT
                 !.fullOnly = fullOnly,
                 !.dataSize = b.dataSize,
                 !.frameSize = DYB_getFrameSize(lib, CHANNELNO),
                 !.avail = lib.fullAvail],
              checkRc("DYB_getDataBuffer", o.rc), << >>)

(* The call DYB_writeBuffer( .., index, dataSize, data, &meta ) at line. *)
WriteBuffer(line) ==
  \E o \in DYB_writeBuffer(lib, buf.dataSize) :
    /\ frc' = o.rc
    /\ Record({"DYB_writeBuffer"}, LibCall("DYB_writeBuffer", line, o.rc),
              checkRc("DYB_writeBuffer", o.rc), << >>)

(* pollDataFull: the printf with DYB_getFrameSize, rc = DYB_getDataBuffer( *)
(* channel, 1, .. ); checkRc.                                              *)
pollDataFull_read ==
  /\ at = "pdf_read"
  /\ GetDataBuffer(IF prog = "example500" THEN 122 ELSE 76, 1, buf, {"DYB_getFrameSize"})
  /\ at' = "pdf_fwd"
  /\ UNCHANGED <<prog, variant, pc, rc, event, outActive, scanState, state, loop, waitFull>>

(* pollDataFull: rc = DYB_writeBuffer( "demo_fwd", .. ); checkRc. *)
pollDataFull_fwd ==
  /\ at = "pdf_fwd"
  /\ WriteBuffer(IF prog = "example500" THEN 124 ELSE 85)
  /\ at' = "pdf_bwd"
  /\ UNCHANGED <<prog, variant, pc, rc, event, outActive, scanState, state, loop, buf, lib, waitFull, delivered, twice>>

(* pollDataFull: rc = DYB_writeBuffer( "demo_bwd", .. ); checkRc; return rc. *)
pollDataFull_bwd ==
  /\ at = "pdf_bwd"
  /\ WriteBuffer(IF prog = "example500" THEN 126 ELSE 87)
  /\ Goto("return", frc')
  /\ UNCHANGED <<prog, variant, event, outActive, scanState, state, loop, buf, lib, waitFull, delivered, twice>>

(* while ( rc == DYB_Ok && loop < 100 ), loop < 10 in example500_counter. *)
PartialLoops(p) == IF p = "example500" THEN 100 ELSE 10
pollDataPartial_loop(p, r, n) == r = DYB_Ok /\ n < PartialLoops(p)

(* loop++ and the test of the loop; loop ends with the function. *)
pollDataPartial_next ==
  IF pollDataPartial_loop(prog, frc', loop + 1)
  THEN /\ loop' = loop + 1
       /\ Goto("pdp_get", frc')
  ELSE /\ loop' = 0
       /\ Goto("return", frc')

(* pollDataPartial: a pass of the loop up to if ( dataSize > 0 ); the pass *)
(* ends here when nothing is to be written.                                *)
pollDataPartial_get ==
  /\ at = "pdp_get"
  /\ GetDataBuffer(IF prog = "example500" THEN 148 ELSE 164, 0,
                   FreshBuffer(FrameArg(prog)), {})
  /\ IF buf'.dataSize > 0
     THEN /\ loop' = loop
          /\ Goto("pdp_write", frc')
     ELSE pollDataPartial_next
  /\ UNCHANGED <<prog, variant, event, outActive, scanState, state, waitFull>>

(* pollDataPartial: rc = DYB_writeBuffer( fn, .. ); checkRc; the end of    *)
(* the pass.                                                               *)
pollDataPartial_write ==
  /\ at = "pdp_write"
  /\ WriteBuffer(IF prog = "example500" THEN 155 ELSE 178)
  /\ pollDataPartial_next
  /\ UNCHANGED <<prog, variant, event, outActive, scanState, state, buf, lib, waitFull, delivered, twice>>

(* pollDataNow: framesize = DYB_getFrameSize( channel_no ). *)
pollDataNow_size ==
  /\ at = "pdn_size"
  /\ Record({"DYB_getFrameSize"},
            LibValue("DYB_getFrameSize", IF prog = "example500_counter" THEN 104 ELSE 57),
            NoPrint, << >>)
  /\ at' = IF prog = "example500_counter" THEN "pdn_read" ELSE "pdn_wait"
  /\ UNCHANGED <<prog, variant, pc, locals, lib, waitFull, delivered, twice>>

(* The test of the loop turned round: while ( event != 0 ). *)
pollDataNow_loop_nonzero(ev) == ev # 0

(* while ( event == 0 ) of example500_counter_clean *)
pollDataNow_loop(ev) == ev = 0

(* pollDataNow of example500_counter_clean: event = DYB_waitForEvent( 500, *)
(* DYB_EVT_DATA_00, 0 ) and the test of the loop.                          *)
pollDataNow_wait ==
  /\ at = "pdn_wait"
  /\ \E o \in DYB_waitForEvent(lib, DYB_EVT_DATA_00, 0) :
       /\ event' = o.val
       /\ lib' = o.lib
       /\ waitFull' = o.full
       /\ at' = IF pollDataNow_loop(o.val) THEN "pdn_wait" ELSE "pdn_read"
  /\ Record({"DYB_waitForEvent"}, LibValue("DYB_waitForEvent", 75), NoPrint, << >>)
  /\ UNCHANGED <<prog, variant, pc, rc, frc, outActive, scanState, state, loop, buf, delivered, twice>>

(* fullOnly of pollDataNow: 1 in example500_counter, 0 in the clean one. *)
pollDataNow_fullOnly(p) == IF p = "example500_counter" THEN 1 ELSE 0

(* pollDataNow: rc = DYB_getDataBuffer( .. ); checkRc. *)
pollDataNow_read ==
  /\ at = "pdn_read"
  /\ GetDataBuffer(IF prog = "example500_counter" THEN 117 ELSE 79,
                   pollDataNow_fullOnly(prog), buf, {})
  /\ at' = "pdn_write"
  /\ UNCHANGED <<prog, variant, pc, rc, event, outActive, scanState, state, loop, waitFull>>

(* pollDataNow: rc = DYB_writeBuffer( .. ); checkRc; return rc. *)
pollDataNow_write ==
  /\ at = "pdn_write"
  /\ WriteBuffer(IF prog = "example500_counter" THEN 126 ELSE 92)
  /\ Goto("return", frc')
  /\ UNCHANGED <<prog, variant, event, outActive, scanState, state, loop, buf, lib, waitFull, delivered, twice>>

(* return rc; *)
Return ==
  /\ InMain("return")
  /\ at' = "done"
  /\ Silent
  /\ UNCHANGED <<prog, variant, pc, locals, lib, waitFull, delivered, twice>>

(* The data channel delivers: a frame becomes complete while the client is *)
(* not inside a library call.                                              *)
FrameComplete ==
  /\ at # "done"
  /\ CanComplete(lib)
  /\ lib' = FrameCompleted(lib)
  /\ UNCHANGED <<ctl, locals, hist>>

Next ==
  \/ CheckedCall
  \/ DroppedCall
  \/ SetParameter
  \/ OutputPoll
  \/ ScanMoving
  \/ ScanPoll
  \/ sendScannerCommand_send
  \/ sendScannerCommand_status
  \/ sendScannerCommand_once
  \/ Acquire
  \/ pollDataFull_wait
  \/ pollDataFull_xy
  \/ pollDataFull_read
  \/ pollDataFull_fwd
  \/ pollDataFull_bwd
  \/ pollDataPartial_get
  \/ pollDataPartial_write
  \/ pollDataNow_size
  \/ pollDataNow_wait
  \/ pollDataNow_read
  \/ pollDataNow_write
  \/ Return
  \/ FrameComplete

Spec == Init /\ [][Next]_vars

(***************************************************************************)
(* The data functions of daisydata.h under any client: a client that has   *)
(* called DYB_init and DYB_run and then calls DYB_configureChannel,        *)
(* DYB_configureDataBuffering, DYB_setParameterAsync( ID_DATA_EN ),        *)
(* DYB_waitForEvent and DYB_getDataBuffer in any order, any number of      *)
(* times, with any of the arguments below.                                 *)
(***************************************************************************)
ClientTriggers == {CHANCONN_SCANNER, CHANCONN_PERMANENT}
ClientBufferSizes == {0, MinTimerBuffer \div 2, 2 * MinTimerBuffer, MaxBufferSize + 1}
ClientArraySizes == {MinTimerBuffer, 2 * MinTimerBuffer, FRAMESIZE}

InitLib ==
  /\ prog = "client"
  /\ variant = 0
  /\ pc = 1
  /\ at = "client"
  /\ rc = DYB_Ok
  /\ frc = DYB_Ok
  /\ event = 0
  /\ outActive = 0
  /\ scanState = 0
  /\ state = 0
  /\ loop = 0
  /\ buf = FreshBuffer(0)
  /\ lib \in {[lib0 EXCEPT !.cols = c, !.lines = n] : c \in ProfileColumns, n \in ProfileLines}
  /\ called = {"DYB_init", "DYB_run"}
  /\ first = "DYB_init"
  /\ inits = 1
  /\ sent = {}
  /\ resent = {}
  /\ last = NoCall
  /\ out = NoPrint
  /\ waitFull = FALSE
  /\ delivered = {}
  /\ twice = FALSE

Client_configureChannel ==
  /\ \E t \in ClientTriggers : \E o \in DYB_configureChannel(lib, CHANNELNO, t) :
       /\ frc' = o.rc
       /\ lib' = o.lib
       /\ Record({"DYB_configureChannel"}, LibCall("DYB_configureChannel", 0, o.rc),
                 NoPrint, << >>)
  /\ UNCHANGED <<ctl, rc, event, outActive, scanState, state, loop, buf, waitFull, delivered, twice>>

Client_configureDataBuffering ==
  /\ \E n \in ClientBufferSizes : \E o \in DYB_configureDataBuffering(lib, CHANNELNO, n) :
       /\ frc' = o.rc
       /\ lib' = o.lib
       /\ Record({"DYB_configureDataBuffering"},
                 LibCall("DYB_configureDataBuffering", 0, o.rc), NoPrint, << >>)
  /\ UNCHANGED <<ctl, rc, event, outActive, scanState, state, loop, buf, waitFull, delivered, twice>>

Client_setParameterAsync ==
  /\ \E v \in {0, 1} : \E o \in DYB_setParameterAsync(lib, ID_DATA_EN, v) :
       /\ frc' = o.rc
       /\ lib' = o.lib
       /\ Record({"DYB_setParameterAsync"}, LibCall("DYB_setParameterAsync", 0, o.rc),
                 NoPrint, << >>)
  /\ UNCHANGED <<ctl, rc, event, outActive, scanState, state, loop, buf, waitFull, delivered, twice>>

Client_waitForEvent ==
  /\ \E o \in DYB_waitForEvent(lib, DYB_EVT_DATA_00, 0) :
       /\ event' = o.val
       /\ lib' = o.lib
       /\ waitFull' = o.full
  /\ Record({"DYB_waitForEvent"}, LibValue("DYB_waitForEvent", 0), NoPrint, << >>)
  /\ UNCHANGED <<ctl, rc, frc, outActive, scanState, state, loop, buf, delivered, twice>>

Client_getDataBuffer ==
  /\ \E fullOnly \in {0, 1} : \E n \in ClientArraySizes :
       GetDataBuffer(0, fullOnly, FreshBuffer(n), {})
  /\ UNCHANGED <<ctl, rc, event, outActive, scanState, state, loop, waitFull>>

NextLib ==
  \/ Client_configureChannel
  \/ Client_configureDataBuffering
  \/ Client_setParameterAsync
  \/ Client_waitForEvent
  \/ Client_getDataBuffer
  \/ FrameComplete

SpecLib == InitLib /\ [][NextLib]_vars

(***************************************************************************)
(* The callback registry of daisybase.h under any client: a client that    *)
(* calls DYB_setDataCallback and DYB_setEventCallback in any order, any    *)
(* number of times, for the channels and addresses below, with a callback  *)
(* or, for a data channel, NULL.                                           *)
(***************************************************************************)
ClientChannels == {CHANNELNO, CHANNELNO + 1}
ClientAddresses == {-1, ID_OUTPUT_STATUS}

Client_setDataCallback ==
  /\ \E c \in ClientChannels : \E f \in Callbacks \cup {NULL} :
       \E o \in DYB_setDataCallback(lib, c, f) :
         /\ frc' = o.rc
         /\ lib' = o.lib
         /\ Record({"DYB_setDataCallback"},
                   [LibCall("DYB_setDataCallback", 0, o.rc) EXCEPT !.key = c, !.callback = f],
                   NoPrint, << >>)
  /\ UNCHANGED <<ctl, rc, event, outActive, scanState, state, loop, buf, waitFull, delivered, twice>>

Client_setEventCallback ==
  /\ \E a \in ClientAddresses : \E f \in Callbacks :
       \E o \in DYB_setEventCallback(lib, a, f) :
         /\ frc' = o.rc
         /\ lib' = o.lib
         /\ Record({"DYB_setEventCallback"},
                   [LibCall("DYB_setEventCallback", 0, o.rc) EXCEPT !.key = a, !.callback = f],
                   NoPrint, << >>)
  /\ UNCHANGED <<ctl, rc, event, outActive, scanState, state, loop, buf, waitFull, delivered, twice>>

NextReg ==
  \/ Client_setDataCallback
  \/ Client_setEventCallback

SpecReg == InitLib /\ [][NextReg]_vars

(***************************************************************************)
(* The example programs with a server that can be lost.  DYB_ServerLost is *)
(* what the functions that talk to the server return from then on, no data *)
(* arrive any more, and a DYB_waitForEvent for data times out with 0.  The *)
(* program itself keeps running: its steps are taken as long as one is     *)
(* possible.                                                               *)
(***************************************************************************)

(* The functions documented to return DYB_ServerLost. *)
ServerCalls == {"DYB_run", "DYB_setParameterAsync", "DYB_getParameterSync",
                "DYB_sendProfile", "DYB_configureChannel", "DYB_setDataCallback"}

(* The connection to the server breaks. *)
ServerLoss ==
  /\ at # "done"
  /\ ~lib.lost
  /\ lib' = [lib EXCEPT !.lost = TRUE]
  /\ UNCHANGED <<ctl, locals, hist>>

(* A step of the program made without the server. *)
LostOutcome ==
  /\ last'.fn \in ServerCalls => last'.rc = DYB_ServerLost
  /\ last'.fn = "DYB_waitForEvent" /\ at \in {"pdf_wait", "pdn_wait"} => event' = 0

(* A statement of the program, whichever it is. *)
Program ==
  \/ CheckedCall
  \/ DroppedCall
  \/ SetParameter
  \/ OutputPoll
  \/ ScanMoving
  \/ ScanPoll
  \/ sendScannerCommand_send
  \/ sendScannerCommand_status
  \/ sendScannerCommand_once
  \/ Acquire
  \/ pollDataFull_wait
  \/ pollDataFull_xy
  \/ pollDataFull_read
  \/ pollDataFull_fwd
  \/ pollDataFull_bwd
  \/ pollDataPartial_get
  \/ pollDataPartial_write
  \/ pollDataNow_size
  \/ pollDataNow_wait
  \/ pollDataNow_read
  \/ pollDataNow_write
  \/ Return

Running == Program /\ (lib.lost => LostOutcome)

Delivering == ~lib.lost /\ FrameComplete

NextLost ==
  \/ Running
  \/ Delivering
  \/ ServerLoss

SpecLost == Init /\ [][NextLost]_vars /\ WF_vars(Running)

(***************************************************************************)
(* Return codes and their prints.                                          *)
(***************************************************************************)

(* A step whose library call returned a code other than DYB_Ok. *)
Failed == last.hasRc /\ last.rc # DYB_Ok

(* The step printed the DYB_printRc text of the code its call returned. *)
PrintedIt == out # NoPrint /\ out.rc = last.rc

(* The calls whose return code the program does not look at: by source     *)
(* line, DYB_setParameterAsync in sendScannerCommand (178; 186 when main   *)
(* drops the result), DYB_configureDataBuffering of example500.c (225) and *)
(* the closing DYB_waitForEvent, DYB_getParameterSync and DYB_stop.        *)
DroppedLines(p) ==
  CASE p = "example500" -> {178, 186, 225, 273, 274, 279}
    [] p = "example500_counter" -> {272, 273, 277}
    [] p = "example500_counter_clean" -> {146, 147, 151}

(* C1 as stated: whenever a library call returns a code other than DYB_Ok  *)
(* the program prints that code's DYB_printRc text, and main never returns *)
(* before it has called DYB_stop.                                          *)
C1_EveryCodePrinted ==
  /\ Failed => PrintedIt
  /\ at = "done" => "DYB_stop" \in called

(* C1 as amended: a code other than DYB_Ok is printed when the call is one *)
(* of those followed by checkRc or made by setParameter, and is dropped    *)
(* without a print at the calls of DroppedLines; in every case the program *)
(* goes on, and main returns only after DYB_stop has been called.          *)
C1_CheckedCodesPrinted ==
  /\ Failed /\ last.line \notin DroppedLines(prog) => PrintedIt
  /\ Failed /\ last.line \in DroppedLines(prog) => out = NoPrint
  /\ at = "done" => "DYB_stop" \in called
  /\ at # "abort"

(* A run that printed a failure, went on and ended after DYB_stop. *)
C1_Witness ==
  /\ at = "done"
  /\ rc # DYB_Ok
  /\ "DYB_printRc" \in called
  /\ "DYB_stop" \in called

(***************************************************************************)
(* Commands sent more than once.                                           *)
(***************************************************************************)
ScanOn == <<ID_SCAN_COMMAND, SCANRUN_ON>>

(* C2 as stated: no parameter value is sent to the server a second time. *)
C2_NothingResent == resent = {}

(* C2 as amended: the only value sent again is ID_SCAN_COMMAND =           *)
(* SCANRUN_ON, by sendScannerCommand of example500.c, and it is sent again *)
(* exactly when the ID_SCAN_STATUS read before it returned DYB_Ok with the *)
(* SCANSTATE_SCAN flag clear.                                              *)
C2_OnlyScanOnResent ==
  /\ [](resent \subseteq {ScanOn} /\ (resent # {} => prog = "example500"))
  /\ [][at = "ssc_send" /\ at' = "ssc_status"
          => frc = DYB_Ok /\ ~HasFlag(state, SCANSTATE_SCAN)]_vars
  /\ [][at = "ssc_status" /\ at' = "main"
          => frc' # DYB_Ok \/ HasFlag(state', SCANSTATE_SCAN)]_vars

(* SCANRUN_ON has been sent again. *)
C2_Witness == resent = {ScanOn} /\ at = "ssc_status"

(***************************************************************************)
(* The order of the calls.                                                 *)
(***************************************************************************)

(* C3: DYB_init is the first library function a program calls, and it is   *)
(* called exactly once: no call has been made yet, or the first one was    *)
(* DYB_init and it has been the only DYB_init since.                       *)
C3_InitFirstAndOnce ==
  \/ first = "" /\ called = {} /\ inits = 0 /\ pc = 1 /\ at = "main"
  \/ first = "DYB_init" /\ inits = 1

(* A finished run, with its one DYB_init. *)
C3_Witness == at = "done" /\ inits = 1 /\ first = "DYB_init"

ControlFns == {"DYB_setParameterAsync", "DYB_getParameterSync", "DYB_sendProfile",
               "DYB_configureChannel", "DYB_configureDataBuffering",
               "DYB_getDataBuffer", "DYB_waitForEvent"}

(* C4: no control function is called before DYB_run has been called and   *)
(* has returned.                                                           *)
C4_ControlAfterRun == called \cap ControlFns # {} => "DYB_run" \in called

(* Every control function has been called, all after DYB_run. *)
C4_Witness == ControlFns \ {"DYB_sendProfile"} \subseteq called /\ "DYB_run" \in called

(* C5: no program registers a data or an event callback, so the library   *)
(* has no callback of the client to run and every call of the client is   *)
(* made by main.                                                           *)
C5_NoCallbacks ==
  /\ called \cap {"DYB_setDataCallback", "DYB_setEventCallback"} = {}
  /\ lib.dataCb = {}
  /\ lib.eventCb = {}

(* The synchronous calls and the daisydata calls have been made. *)
C5_Witness ==
  /\ {"DYB_getParameterSync", "DYB_sendProfile", "DYB_getDataBuffer",
      "DYB_writeBuffer", "DYB_waitForEvent"} \subseteq called
  /\ lib.dataCb = {}

(***************************************************************************)
(* What DYB_writeBuffer is given.                                          *)
(***************************************************************************)

(* C7: every DYB_writeBuffer call is given data, index, dataSize and meta  *)
(* that were all filled by the most recent DYB_getDataBuffer call, and     *)
(* that call was successful.                                               *)
C7_WrittenFromOneGet ==
  last.fn = "DYB_writeBuffer" =>
    /\ buf.got
    /\ buf.data = "get"
    /\ buf.index = "get"
    /\ buf.size = "get"
    /\ buf.meta = "get"

(***************************************************************************)
(* Waiting for a full buffer.                                              *)
(***************************************************************************)

(* The program is inside a loop on DYB_waitForEvent( .., DYB_EVT_DATA_00 ). *)
InWaitLoop == at \in {"pdf_wait", "pdf_xy", "pdn_wait"}

(* A wait of such a loop reports an event exactly when a frame became      *)
(* complete during it, whatever was complete before the call began.        *)
WaitStep ==
  pollDataFull_wait \/ pollDataNow_wait =>
    /\ (event' # 0) = waitFull'
    /\ waitFull' => lib'.frameNo = lib.frameNo + 1
    /\ ~waitFull' => lib' = lib

WaitReportsOnlyItsOwn == [][WaitStep]_vars

(* The step leaves the loop. *)
LeavesWaitLoop == InWaitLoop /\ ~InWaitLoop'

(* C8 as stated: a wait reports only the events that occur during it, and  *)
(* a loop on DYB_waitForEvent for DYB_EVT_DATA_00 is left only if a buffer  *)
(* became full during one of its waits.                                    *)
C8_LeftOnlyOnFull ==
  /\ WaitReportsOnlyItsOwn
  /\ [][LeavesWaitLoop => waitFull' /\ event' # 0]_vars

(* C8 amended: a wait reports only the events that occur during it, and    *)
(* the loop is left only if a buffer became full during its last wait or,  *)
(* in pollDataFull of example500.c, if ASC500_getXYPos failed.             *)
C8_LeftOnFullOrError ==
  /\ WaitReportsOnlyItsOwn
  /\ [][LeavesWaitLoop =>
         (waitFull' /\ event' # 0) \/
         (prog = "example500" /\ frc' # DYB_Ok /\ last'.line = 113)]_vars

(* A loop has been left on an event, after a frame that was complete       *)
(* before the wait began and that no wait reported.                        *)
C8_Witness ==
  /\ at \in {"pdf_read", "pdn_read"}
  /\ waitFull
  /\ event = DYB_EVT_DATA_00
  /\ lib.frameNo >= 2

(***************************************************************************)
(* The buffer handed to DYB_getDataBuffer.                                 *)
(***************************************************************************)

(* C9: whenever a program calls DYB_getDataBuffer, the dataSize it         *)
(* announces (the size of its array) is at least the frame size the        *)
(* server has in place at that moment.                                     *)
C9_ArrayHoldsFrame ==
  last.fn = "DYB_getDataBuffer" => last.dataSize >= last.frameSize

(* The program configures its channel as timer triggered. *)
TimerTriggered(p) ==
  \E k \in 1..Len(Main(p)) :
    Main(p)[k].fn = "DYB_configureChannel" /\ Main(p)[k].b = CHANCONN_PERMANENT

(* C10: DYB_getDataBuffer is called only after DYB_configureDataBuffering   *)
(* has been called with a positive size that the library accepts: not      *)
(* above 1M, and at least 128 when the channel is timer triggered.         *)
C10_BufferingConfiguredFirst ==
  "DYB_getDataBuffer" \in called =>
    /\ "DYB_configureDataBuffering" \in called
    /\ lib.bufSize > 0
    /\ lib.bufSize <= MaxBufferSize
    /\ TimerTriggered(prog) => lib.bufSize >= MinTimerBuffer

C10_Witness ==
  /\ last.fn = "DYB_getDataBuffer"
  /\ last.rc = DYB_Ok
  /\ lib.bufSize > 0

(***************************************************************************)
(* Full buffers are handed out once.                                       *)
(***************************************************************************)

(* The last step was a DYB_getDataBuffer call with fullOnly = 1 on a       *)
(* channel whose data are buffered.                                        *)
FullOnlyCall ==
  last.fn = "DYB_getDataBuffer" /\ last.fullOnly = 1 /\ last.frameSize > 0

(* The call returned a completely filled buffer. *)
ReturnedFull ==
  last.rc = DYB_Ok /\ last.avail /\ buf.got /\ buf.dataSize = last.frameSize

(* C6 as stated: calls with fullOnly = 1 never return the same data twice; *)
(* each returns DYB_Ok with a completely filled buffer that no earlier     *)
(* call returned, or DYB_OutOfRange because no full buffer is available.   *)
C6_FullOnceOrNoneAvailable ==
  /\ ~twice
  /\ FullOnlyCall => ReturnedFull \/ (last.rc = DYB_OutOfRange /\ ~last.avail)

(* C6 amended: .. or DYB_OutOfRange because no full buffer is available or *)
(* because the dataSize the caller announces is less than the frame size.  *)
C6_FullOnceOrNoneOrTooSmall ==
  /\ ~twice
  /\ FullOnlyCall =>
       \/ ReturnedFull
       \/ last.rc = DYB_OutOfRange /\ (~last.avail \/ last.dataSize < last.frameSize)

(* Two calls with fullOnly = 1 have returned a full buffer each. *)
C6_Witness ==
  /\ FullOnlyCall
  /\ ReturnedFull
  /\ Cardinality(delivered) = 2

(***************************************************************************)
(* The data channels are enabled before data are waited for or fetched.    *)
(***************************************************************************)

(* The lines of the DYB_waitForEvent calls for DYB_EVT_DATA_00. *)
DataWaitLines(p) ==
  CASE p = "example500" -> {112}
    [] p = "example500_counter" -> {66}
    [] p = "example500_counter_clean" -> {75}
    [] OTHER -> {}

(* The last step waited for or fetched data of the channel. *)
DataCall ==
  \/ last.fn = "DYB_getDataBuffer"
  \/ last.fn = "DYB_waitForEvent" /\ last.line \in DataWaitLines(prog)

(* The step sends a profile or sets ID_DATA_EN to 1, with DYB_Ok. *)
EnablingStep ==
  /\ last'.rc = DYB_Ok
  /\ \/ last' # last /\ last'.fn = "DYB_sendProfile"
     \/ <<ID_DATA_EN, 1>> \in sent' \ sent

C12_OkIsTheOnlySuccess ==
  /\ [](/\ Cardinality(DYB_Rc) = 12
        /\ DYB_Ok = 0
        /\ \A r \in DYB_Rc \ {DYB_Ok} : r # 0
        /\ rc \in DYB_Rc /\ frc \in DYB_Rc /\ last.rc \in DYB_Rc
        /\ \A r \in ASC500_getXYPos(lib) :
             r = DYB_Ok \/ \E o \in DYB_getParameterSync(lib, 0, 0) : o.rc = r /\ r # DYB_Ok)
  /\ [][at = "ssc_status" /\ at' = "ssc_send" => frc' = DYB_Ok]_vars
  /\ [][at = "ssc_status" /\ at' = "main" /\ ~HasFlag(state', SCANSTATE_SCAN)
          => frc' # DYB_Ok]_vars

(* sendScannerCommand has ended its loop on a code other than DYB_Ok. *)
C12_Witness ==
  /\ at = "main"
  /\ last.line = 180
  /\ last.rc = DYB_Timeout
  /\ rc = DYB_Timeout
  /\ ~HasFlag(state, SCANSTATE_SCAN)

(***************************************************************************)
(* The registry of callbacks.                                              *)
(***************************************************************************)

(* The callbacks registry reg holds for key. *)
CallbacksOf(reg, key) == {e[2] : e \in {x \in reg : x[1] = key}}

(* C13: each data channel has at most one registered callback, the one     *)
(* passed in the most recent DYB_setDataCallback call for that channel, or *)
(* none if that call passed NULL; each address, -1 included, has at most   *)
(* one event callback, the one registered most recently.                   *)
C13_OneCallbackEach ==
  /\ [](/\ \A c \in ClientChannels : Cardinality(CallbacksOf(lib.dataCb, c)) <= 1
        /\ \A a \in ClientAddresses : Cardinality(CallbacksOf(lib.eventCb, a)) <= 1
        /\ NULL \notin {e[2] : e \in lib.dataCb \cup lib.eventCb})
  /\ [][Client_setDataCallback =>
         /\ CallbacksOf(lib'.dataCb, last'.key) = {last'.callback} \ {NULL}
         /\ \A c \in ClientChannels \ {last'.key} :
              CallbacksOf(lib'.dataCb, c) = CallbacksOf(lib.dataCb, c)
         /\ lib'.eventCb = lib.eventCb]_vars
  /\ [][Client_setEventCallback =>
         /\ CallbacksOf(lib'.eventCb, last'.key) = {last'.callback}
         /\ \A a \in ClientAddresses \ {last'.key} :
              CallbacksOf(lib'.eventCb, a) = CallbacksOf(lib.eventCb, a)
         /\ lib'.dataCb = lib.dataCb]_vars

(* A callback has been replaced on one channel and unregistered with NULL  *)
(* on the other, and the catchall address has a callback.                  *)
C13_Witness ==
  /\ last.fn = "DYB_setDataCallback"
  /\ last.callback = NULL
  /\ last.key = CHANNELNO
  /\ lib.dataCb = {<<CHANNELNO + 1, 2>>}
  /\ lib.eventCb = {<<-1, 1>>}

(***************************************************************************)
(* pollDataFull.                                                           *)
(***************************************************************************)

(* The lines of DYB_getDataBuffer and DYB_writeBuffer in pollDataFull. *)
FullGetLines(p) == IF p = "example500" THEN {122} ELSE {76}
FullWriteLines(p) == IF p = "example500" THEN {124, 126} ELSE {85, 87}

(* After its DYB_getDataBuffer call pollDataFull goes on to the writes and *)
(* does not come back to it.                                               *)
RetrievesOnce ==
  /\ at = "pdf_read" /\ at' # at => at' = "pdf_fwd"
  /\ at \in {"pdf_fwd", "pdf_bwd"} => at' # "pdf_read"

(* C14: pollDataFull calls DYB_getDataBuffer only after a DYB_waitForEvent *)
(* call has returned an event other than 0, it retrieves the frame at most *)
(* once, and what it then writes to the forward and the backward file is   *)
(* that frame: the data, index, dataSize and meta the call delivered.      *)
C14_FullFrameWritten ==
  /\ [](last.fn = "DYB_getDataBuffer" /\ last.line \in FullGetLines(prog) =>
          event # 0 /\ "DYB_waitForEvent" \in called)
  /\ [][RetrievesOnce]_vars
  /\ [](last.fn = "DYB_writeBuffer" /\ last.line \in FullWriteLines(prog) =>
          buf.got /\ buf.data = "get" /\ buf.meta = "get")

(***************************************************************************)
(* sendScannerCommand.                                                     *)
(***************************************************************************)

(* sendScannerCommand( SCANRUN_ON ) returns: DYB_Ok only with the flag     *)
(* SCANSTATE_SCAN in the status that its last, successful read delivered.  *)
ScanOnReturns ==
  at = "ssc_status" /\ at' = "main" /\ frc' = DYB_Ok =>
    /\ HasFlag(state', SCANSTATE_SCAN)
    /\ last'.fn = "DYB_getParameterSync" /\ last'.line = 180 /\ last'.rc = DYB_Ok

(* Any other command: one DYB_setParameterAsync, then back in main with    *)
(* state untouched.                                                        *)
OtherCommandOnce ==
  sendScannerCommand_once =>
    /\ at' = "main" /\ pc' = pc + 1
    /\ last'.fn = "DYB_setParameterAsync" /\ last'.line = 186
    /\ state' = state

(* C15: sendScannerCommand( SCANRUN_ON ) sends the command again as long    *)
(* as the status read succeeds without SCANSTATE_SCAN and returns DYB_Ok   *)
(* only if the last status it read has SCANSTATE_SCAN; any other command   *)
(* is sent exactly once and no status is read for it.                      *)
C15_ScanOnUntilRunning ==
  /\ [](at = "ssc_send" => frc = DYB_Ok /\ ~HasFlag(state, SCANSTATE_SCAN))
  /\ [](at \in {"ssc_send", "ssc_status"} => stmt.b = SCANRUN_ON)
  /\ [](<<ID_SCAN_COMMAND, SCANRUN_OFF>> \notin resent)
  /\ [][ScanOnReturns]_vars
  /\ [][OtherCommandOnce]_vars

(* The command was sent more than once and the function has returned       *)
(* DYB_Ok with the scanner running; later SCANRUN_OFF was sent.            *)
C15_Witness ==
  /\ resent = {ScanOn}
  /\ <<ID_SCAN_COMMAND, SCANRUN_OFF>> \in sent
  /\ HasFlag(state, SCANSTATE_SCAN)
  /\ last.line = 186

(***************************************************************************)
(* Waiting for the outputs.                                                *)
(***************************************************************************)

(* main has left the loop that polls ID_OUTPUT_STATUS and is about to      *)
(* execute the statement after it.                                         *)
PastOutputPoll ==
  at = "main" /\ pc > 1 /\ Main(prog)[pc - 1].op = "outputPoll"

(* C16: main goes on to the statement after the loop only after a read of  *)
(* ID_OUTPUT_STATUS has reported the outputs as active: outActive, which   *)
(* is 0 until such a read writes it, is not 0, and the read has been made. *)
C16_OutputsActiveFirst ==
  PastOutputPoll => outActive # 0 /\ "DYB_getParameterSync" \in called

(***************************************************************************)
(* pollDataPartial.                                                        *)
(***************************************************************************)

(* The lines of DYB_writeBuffer in pollDataPartial. *)
PartialWriteLines(p) == IF p = "example500" THEN {155} ELSE {178}

(* C17: pollDataPartial calls DYB_writeBuffer only with a buffer that is   *)
(* not empty: the DYB_getDataBuffer call of the same pass of the loop      *)
(* succeeded and delivered at least one valid item.                        *)
C17_PartialWritesData ==
  last.fn = "DYB_writeBuffer" /\ last.line \in PartialWriteLines(prog) =>
    /\ buf.dataSize > 0
    /\ buf.got
    /\ buf.data = "get"


(***************************************************************************)
(* C18: every polling loop of the example programs ends when the call it   *)
(* polls fails: once the server is lost, so that every call returns        *)
(* DYB_ServerLost and every DYB_waitForEvent times out with 0, the program *)
(* terminates, having reached DYB_stop.                                    *)
(***************************************************************************)
Terminated == at = "done" /\ "DYB_stop" \in called

C18_TerminatesWhenServerLost == lib.lost ~> Terminated
====
